---- MODULE Spec2Model ----
(***************************************************************************)
(* Design System Extraction Engine.                                        *)
(*                                                                         *)
(* Three parts of the repository are modelled:                             *)
(*   - the analysis pipeline: the POST handler of /api/analyze and         *)
(*     analyzeWebsite of lib/analyzer.ts, with the launch-per-call         *)
(*     VisualAnalyzer it imports (lib/visual-analyzer.ts, last revision);  *)
(*   - the browser lifecycle manager: the VisualAnalyzer revision with     *)
(*     isBrowserHealthy / resetBrowser / init / newSafePage and the        *)
(*     `launching` latch (unnamed/part_002), shared by its callers, and    *)
(*     beside it the first revision of lib/visual-analyzer.ts;             *)
(*   - the markup extractors of lib/analyzer.ts and of the earlier         *)
(*     analyzer (unnamed/part_005) as operators on markup, and the         *)
(*     deduplication of the typography read from a rendered page.          *)
(*                                                                         *)
(* Spec is the pipeline, SpecVisual the callers of the shared instance,    *)
(* SpecPages every operation of either that opens a page, SpecExtract the  *)
(* extractors called on their own.  Every await of the code is a step;     *)
(* what runs between two awaits is atomic.                                 *)
(*                                                                         *)
(* Strings the code inspects character by character (colour literals,      *)
(* font-family values, titles) are sequences of one-character strings.     *)
(* Markup is a sequence of tokens: each token is one match of one of the   *)
(* regular expressions the extractors scan the markup with.                *)
(***************************************************************************)
EXTENDS Integers, Sequences, FiniteSets, TLC

(***************************************************************************)
(* Bounds                                                                  *)
(***************************************************************************)
\* number of analysis requests in flight in the pipeline
NRequests == 2

Requests == 1..NRequests

(***************************************************************************)
(* Optional values: <<>> is absent, <<x>> is present.                      *)
(***************************************************************************)
None == <<>>

Some(x) == <<x>>

IsSome(o) == Len(o) = 1

Get(o) == o[1]

\* JavaScript undefined / null, as values of string-typed locals
Undefined == "undefined"

Null == "null"

(***************************************************************************)
(* Character helpers                                                       *)
(***************************************************************************)
RECURSIVE MapSeq(_, _)
MapSeq(Op(_), s) == IF s = <<>> THEN <<>> ELSE <<Op(Head(s))>> \o MapSeq(Op, Tail(s))

RECURSIVE FlatSeq(_)
FlatSeq(ss) == IF ss = <<>> THEN <<>> ELSE Head(ss) \o FlatSeq(Tail(ss))

SeqRange(s) == {s[i] : i \in 1..Len(s)}

\* String.prototype.toUpperCase on one character (the letters colour literals use)
UpperChar(c) ==
    CASE c = "a" -> "A" [] c = "b" -> "B" [] c = "c" -> "C"
      [] c = "d" -> "D" [] c = "e" -> "E" [] c = "f" -> "F"
      [] OTHER -> c

ToUpperCase(s) == [i \in 1..Len(s) |-> UpperChar(s[i])]

\* Number.prototype.toString(16): lower-case digits, no leading zeros
HexDigitChar(d) ==
    <<"0","1","2","3","4","5","6","7","8","9","a","b","c","d","e","f">>[d + 1]

RECURSIVE ToString16(_)
ToString16(n) ==
    IF n < 16 THEN <<HexDigitChar(n)>>
    ELSE ToString16(n \div 16) \o <<HexDigitChar(n % 16)>>

\* String.prototype.padStart(2, "0")
PadStart2(s) == IF Len(s) >= 2 THEN s ELSE IF Len(s) = 1 THEN <<"0">> \o s ELSE <<"0","0">>

\* String.prototype.trim on blanks
RECURSIVE TrimStart(_)
TrimStart(s) == IF s # <<>> /\ Head(s) = " " THEN TrimStart(Tail(s)) ELSE s

RECURSIVE TrimEnd(_)
TrimEnd(s) ==
    IF s # <<>> /\ s[Len(s)] = " " THEN TrimEnd(SubSeq(s, 1, Len(s) - 1)) ELSE s

Trim(s) == TrimEnd(TrimStart(s))

(***************************************************************************)
(* Markup tokens.  Every token carries all fields, unused ones empty.      *)
(*   k = "hex"   d = the digits matched by #(?:[0-9a-fA-F]{3}){1,2}        *)
(*   k = "rgb"   s = the function name as written, n = <<r, g, b>>         *)
(*   k = "tag"   s = the tag name of an opening tag "<name>" or "<name "    *)
(*   k = "title" d = the text between <title> and </title>                 *)
(*   k = "font"  d = the value of a font-family declaration up to ";"      *)
(***************************************************************************)
Tok(k, s, d, n) == [k |-> k, s |-> s, d |-> d, n |-> n]

HexTok(d) == Tok("hex", "", d, <<>>)

RgbTok(f, r, g, b) == Tok("rgb", f, <<>>, <<r, g, b>>)

TagTok(t) == Tok("tag", t, <<>>, <<>>)

TitleTok(d) == Tok("title", "", d, <<>>)

FontTok(d) == Tok("font", "", d, <<>>)

(***************************************************************************)
(* lib/analyzer.ts: the markup extractors                                  *)
(***************************************************************************)
\* the text of a colour match, as normalizeColor receives it
HashStr(d) == <<"#">> \o d

BlackHex == <<"#","0","0","0","0","0","0">>

WhiteHex == <<"#","F","F","F","F","F","F">>

DoubleChar(c) == <<c, c>>

RgbComponent(v) == PadStart2(ToString16(v))

\* normalizeColor(color): None is null
NormalizeColor(t) ==
    IF t.k = "hex"
    THEN \* color.startsWith("#")
         IF Len(HashStr(t.d)) = 4
         THEN Some(ToUpperCase(<<"#">> \o FlatSeq(MapSeq(DoubleChar, t.d))))
         ELSE Some(ToUpperCase(HashStr(t.d)))
    ELSE \* color.match(/rgb\((\d+),\s*(\d+),\s*(\d+)/): case-sensitive, "rgb(" only
         IF t.k = "rgb" /\ t.s = "rgb"
         THEN Some(ToUpperCase(<<"#">> \o FlatSeq(MapSeq(RgbComponent, t.n))))
         ELSE None

IsValidColor(hex) == Len(hex) = 7 /\ hex # BlackHex /\ hex # WhiteHex

\* Set.add into an insertion-ordered Set
SetAdd(set, x) == IF x \in SeqRange(set) THEN set ELSE Append(set, x)

IsColorMatch(t) == t.k \in {"hex", "rgb"}

\* the while loop of extractColors over the matches of its regular expression
RECURSIVE ColorSet(_, _)
ColorSet(html, set) ==
    IF html = <<>> THEN set
    ELSE LET t == Head(html)
             hex == IF IsColorMatch(t) THEN NormalizeColor(t) ELSE None
         IN  IF IsSome(hex) /\ IsValidColor(Get(hex))
             THEN ColorSet(Tail(html), SetAdd(set, Get(hex)))
             ELSE ColorSet(Tail(html), set)

ColorUsageCycle == <<"primary", "secondary", "accent", "neutral">>

ColorSliceLen == 10

\* mutant: every distinct colour is returned
NoSlice(s, n) == s

Slice(s, n) == SubSeq(s, 1, IF Len(s) < n THEN Len(s) ELSE n)

ColorFallback ==
    << [hex |-> BlackHex, usage |-> "neutral"],
       [hex |-> WhiteHex, usage |-> "background"] >>

\* extractColors from the Set on: slice(0, 10), usage by index, fallback when empty
Palette(set) ==
    LET first == Slice(set, ColorSliceLen)
        colors == [i \in 1..Len(first) |->
                     [hex |-> first[i],
                      usage |-> ColorUsageCycle[((i - 1) % Len(ColorUsageCycle)) + 1]]]
    IN  IF Len(colors) # 0 THEN colors ELSE ColorFallback

ExtractColors(html) == Palette(ColorSet(html, <<>>))

\* String.prototype.replace(/['"]/g, "")
RECURSIVE StripQuotes(_)
StripQuotes(s) ==
    IF s = <<>> THEN <<>>
    ELSE IF Head(s) \in {"'", "\""} THEN StripQuotes(Tail(s))
         ELSE <<Head(s)>> \o StripQuotes(Tail(s))

\* String.prototype.split(",")[0]
RECURSIVE BeforeComma(_)
BeforeComma(s) ==
    IF s = <<>> \/ Head(s) = "," THEN <<>>
    ELSE <<Head(s)>> \o BeforeComma(Tail(s))

SystemUi == <<"s","y","s","t","e","m","-","u","i">>

\* tag names compare case-insensitively under the /i flag
LowerTag(t) ==
    CASE t = "H1" -> "h1" [] t = "P" -> "p" [] t = "HEADER" -> "header"
      [] OTHER -> t

HasTagI(html, names) ==
    \E i \in 1..Len(html) : html[i].k = "tag" /\ LowerTag(html[i].s) \in names

\* String.prototype.includes("<" + tag): case-sensitive
HasTag(html, name) ==
    \E i \in 1..Len(html) : html[i].k = "tag" /\ html[i].s = name

FirstOfKind(html, k) ==
    LET idx == {i \in 1..Len(html) : html[i].k = k}
    IN  IF idx = {} THEN None
        ELSE Some(html[CHOOSE i \in idx : \A j \in idx : i <= j])

HeadingLevels ==
    << [tag |-> "h1", size |-> "2.25rem", weight |-> 700],
       [tag |-> "h2", size |-> "1.875rem", weight |-> 600],
       [tag |-> "h3", size |-> "1.5rem", weight |-> 600],
       [tag |-> "h4", size |-> "1.25rem", weight |-> 600] >>

Typo(f, w, sz, lh, u) ==
    [fontFamily |-> f, fontWeight |-> w, fontSize |-> sz, lineHeight |-> lh, usage |-> u]

\* extractTypography up to the fallback: the heading, body and caption entries
FoundTypography(html) ==
    LET fontMatch == FirstOfKind(html, "font")
        fontFamily == IF IsSome(fontMatch)
                      THEN Trim(BeforeComma(StripQuotes(Get(fontMatch).d)))
                      ELSE SystemUi
        found == {i \in 1..Len(HeadingLevels) : HasTagI(html, {HeadingLevels[i].tag})}
        heading == IF found = {} THEN <<>>
                   ELSE LET h == HeadingLevels[CHOOSE i \in found : \A j \in found : i <= j]
                        IN  <<Typo(fontFamily, h.weight, h.size, "1.2", "heading")>>
        body == IF HasTagI(html, {"p", "div"})
                THEN <<Typo(fontFamily, 400, "1rem", "1.5", "body")>> ELSE <<>>
        caption == IF HasTagI(html, {"button", "a", "label"})
                   THEN <<Typo(fontFamily, 500, "0.875rem", "1.4", "caption")>> ELSE <<>>
    IN  heading \o body \o caption

\* mutant: no fallback entry when nothing was found
ExtractTypographyNoFallback(html) == FoundTypography(html)

ExtractTypography(html) ==
    LET typography == FoundTypography(html)
    IN  IF Len(typography) = 0
        THEN <<Typo(SystemUi, 400, "1rem", "1.5", "body")>>
        ELSE typography

SectionTags == <<"header", "nav", "main", "section", "article", "footer">>

RECURSIVE Dedupe(_, _)
Dedupe(s, acc) == IF s = <<>> THEN acc ELSE Dedupe(Tail(s), SetAdd(acc, Head(s)))

RECURSIVE SelectTags(_, _)
SelectTags(html, tags) ==
    IF tags = <<>> THEN <<>>
    ELSE (IF HasTag(html, Head(tags)) THEN <<Head(tags)>> ELSE <<>>)
         \o SelectTags(html, Tail(tags))

\* mutant: no default section when the markup has none
ExtractLayoutNoDefault(html) ==
    LET sections == SelectTags(html, SectionTags)
    IN  [type |-> IF Len(sections) > 2 THEN "multi-column" ELSE "single-column",
         sections |-> Dedupe(sections, <<>>)]

ExtractLayoutStructure(html) ==
    LET sections == SelectTags(html, SectionTags)
    IN  [type |-> IF Len(sections) > 2 THEN "multi-column" ELSE "single-column",
         sections |-> IF Len(sections) # 0 THEN Dedupe(sections, <<>>) ELSE <<"main">>]

\* extractPageTitle(html): None is null
ExtractPageTitle(html) ==
    LET match == FirstOfKind(html, "title")
    IN  IF IsSome(match) THEN Some(Trim(Get(match).d)) ELSE None

SpacingScale ==
    ("xs" :> "0.25rem") @@ ("sm" :> "0.5rem") @@ ("md" :> "1rem") @@
    ("lg" :> "1.5rem") @@ ("xl" :> "2rem") @@ ("2xl" :> "3rem")

RadiiScale ==
    ("none" :> "0") @@ ("sm" :> "0.125rem") @@ ("base" :> "0.25rem") @@
    ("md" :> "0.375rem") @@ ("lg" :> "0.5rem") @@ ("xl" :> "0.75rem")

BreakpointScale ==
    ("sm" :> "640px") @@ ("md" :> "768px") @@ ("lg" :> "1024px") @@
    ("xl" :> "1280px") @@ ("2xl" :> "1536px")

ExtractDesignSystem(html) ==
    [colors |-> ExtractColors(html),
     typography |-> ExtractTypography(html),
     components |-> <<>>,
     spacing |-> SpacingScale,
     borderRadii |-> RadiiScale,
     breakpoints |-> BreakpointScale]

(***************************************************************************)
(* unnamed/part_005: the markup extractors of the earlier analyzer, which  *)
(* reads colours and fonts from <style> blocks and style="" attributes.    *)
(* More tokens:                                                            *)
(*   k = "styleOpen" / "styleClose"   <style ...> and </style>             *)
(*   k = "attrOpen" / "attrClose"     style=" and its closing quote; a     *)
(*        colour token between them is the value of a colour declaration   *)
(*   k = "other"  s = a colour value in another notation ("hsl", "red")    *)
(*   k = "text"   s = a word of text or of an attribute value              *)
(***************************************************************************)
StyleOpenTok == Tok("styleOpen", "", <<>>, <<>>)

StyleCloseTok == Tok("styleClose", "", <<>>, <<>>)

AttrOpenTok == Tok("attrOpen", "", <<>>, <<>>)

AttrCloseTok == Tok("attrClose", "", <<>>, <<>>)

OtherTok(s) == Tok("other", s, <<>>, <<>>)

TextTok(w) == Tok("text", w, <<>>, <<>>)

MinOf(S) == CHOOSE i \in S : \A j \in S : i <= j

\* the captures of a global regular expression open([^]*?)close, in order
RECURSIVE Blocks(_, _, _)
Blocks(html, open, close) ==
    LET o == {i \in 1..Len(html) : html[i].k = open}
    IN  IF o = {} THEN <<>>
        ELSE LET c == {j \in (MinOf(o) + 1)..Len(html) : html[j].k = close}
             IN  IF c = {} THEN <<>>
                 ELSE <<SubSeq(html, MinOf(o) + 1, MinOf(c) - 1)>>
                      \o Blocks(SubSeq(html, MinOf(c) + 1, Len(html)), open, close)

\* expandHex(hex): every digit doubled, the case left as written
ExpandHex(hex) == <<"#">> \o FlatSeq(MapSeq(DoubleChar, Tail(hex)))

\* normalizeColor(color) of part_005: None is null
PrevNormalizeColor(t) ==
    IF t.k = "hex"
    THEN \* /^#(?:[0-9a-fA-F]{3}){1,2}$/.test(color)
         IF Len(t.d) \in {3, 6}
         THEN IF Len(HashStr(t.d)) = 4 THEN Some(ExpandHex(HashStr(t.d)))
              ELSE Some(ToUpperCase(HashStr(t.d)))
         ELSE None
    ELSE \* color.match(/rgba?\((\d+),\s*(\d+),\s*(\d+)/): case-sensitive
         IF t.k = "rgb" /\ t.s \in {"rgb", "rgba"}
         THEN Some(ToUpperCase(<<"#">> \o FlatSeq(MapSeq(RgbComponent, t.n))))
         ELSE None

PrevIsValidColor(hex) == hex # BlackHex /\ hex # WhiteHex /\ Len(hex) = 7

\* the inner while loops of extractColors: normalize each match, keep the new valid ones
RECURSIVE PrevScan(_, _)
PrevScan(toks, set) ==
    IF toks = <<>> THEN set
    ELSE LET hex == PrevNormalizeColor(Head(toks))
         IN  IF IsSome(hex) /\ Get(hex) \notin SeqRange(set) /\ PrevIsValidColor(Get(hex))
             THEN PrevScan(Tail(toks), Append(set, Get(hex)))
             ELSE PrevScan(Tail(toks), set)

\* the two passes of extractColors: <style> blocks first, then style attributes
PrevColorSet(html, set) ==
    PrevScan(FlatSeq(Blocks(html, "attrOpen", "attrClose")),
             PrevScan(FlatSeq(Blocks(html, "styleOpen", "styleClose")), set))

PrevUsageCycle == <<"primary", "secondary", "accent", "neutral", "background">>

\* categorizeColorUsage(hex, index), index from 0
CategorizeColorUsage(hex, index) == PrevUsageCycle[(index % Len(PrevUsageCycle)) + 1]

PrevColorFallback ==
    << [hex |-> BlackHex, usage |-> "neutral"],
       [hex |-> WhiteHex, usage |-> "background"],
       [hex |-> <<"#","3","B","8","2","F","6">>, usage |-> "primary"],
       [hex |-> <<"#","6","3","6","6","F","1">>, usage |-> "accent"],
       [hex |-> <<"#","8","B","5","C","F","6">>, usage |-> "secondary"] >>

PrevColorSliceLen == 10

\* extractColors from the Set on: categorize, fall back when empty, slice(0, 10)
PrevPalette(set) ==
    LET colors == [i \in 1..Len(set) |->
                     [hex |-> set[i], usage |-> CategorizeColorUsage(set[i], i - 1)]]
    IN  Slice(IF Len(colors) = 0 THEN PrevColorFallback ELSE colors, PrevColorSliceLen)

PrevExtractColors(html) == PrevPalette(PrevColorSet(html, <<>>))

SansSerif == <<"s","a","n","s","-","s","e","r","i","f">>

\* the font-family loop of extractTypography over the <style> blocks
RECURSIVE PrevFamilies(_, _)
PrevFamilies(toks, set) ==
    IF toks = <<>> THEN set
    ELSE LET t == Head(toks)
             family == Trim(BeforeComma(StripQuotes(Trim(t.d))))
         IN  IF t.k = "font" /\ Len(family) > 0
             THEN PrevFamilies(Tail(toks), SetAdd(set, family))
             ELSE PrevFamilies(Tail(toks), set)

PrevTypographySliceLen == 5

PrevFamilyLimit == 2

\* extractTypography of part_005: heading, body and caption for each family
PrevExtractTypography(html) ==
    LET found == Slice(PrevFamilies(FlatSeq(Blocks(html, "styleOpen", "styleClose")), <<>>),
                       PrevFamilyLimit)
        families == IF Len(found) = 0 THEN <<SystemUi, SansSerif>> ELSE found
        entries(f) == << Typo(f, 700, "2.25rem", "1.5", "heading"),
                         Typo(f, 400, "1rem", "1.5", "body"),
                         Typo(f, 600, "0.875rem", "1.5", "caption") >>
    IN  Slice(FlatSeq([i \in 1..Len(families) |-> entries(families[i])]),
              PrevTypographySliceLen)

\* html.includes("<" + tag) || html.includes(tag): the word anywhere in the markup
HasWord(html, name) ==
    \E i \in 1..Len(html) : html[i].k \in {"tag", "text"} /\ html[i].s = name

RECURSIVE PrevSelectTags(_, _)
PrevSelectTags(html, tags) ==
    IF tags = <<>> THEN <<>>
    ELSE (IF HasWord(html, Head(tags)) THEN <<Head(tags)>> ELSE <<>>)
         \o PrevSelectTags(html, Tail(tags))

\* extractLayoutStructure of part_005 (its [role=...] selectors never occur in
\* the markups of the model)
PrevExtractLayoutStructure(html) ==
    LET sections == PrevSelectTags(html, SectionTags)
    IN  [type |-> "multi-column",
         sections |-> Dedupe(IF Len(sections) = 0 THEN <<"header", "main", "footer">>
                             ELSE sections, <<>>)]

(***************************************************************************)
(* lib/visual-analyzer.ts, first revision: the typography list of a        *)
(* rendered page is deduplicated through a Map keyed fontFamily-usage      *)
(***************************************************************************)
\* new Map(entries): a key keeps the place of its first entry and the value of its last
RECURSIVE MapOf(_, _)
MapOf(entries, map) ==
    IF entries = <<>> THEN map
    ELSE LET e == Head(entries)
             at == {i \in 1..Len(map) : map[i].key = e.key}
         IN  MapOf(Tail(entries),
                   IF at = {} THEN Append(map, e)
                   ELSE [map EXCEPT ![MinOf(at)] = e])

\* `${t.fontFamily}-${t.usage}`
TypographyKey(t) == t.fontFamily \o <<"-">> \o <<t.usage>>

RenderedSliceLen == 5

\* mutant: the list is sliced without going through the Map
KeepAllTypography(typography) == Slice(typography, RenderedSliceLen)

\* Array.from(new Map(typography.map(t => [key, t])).values()).slice(0, 5)
UniqueTypography(typography) ==
    LET map == MapOf([i \in 1..Len(typography) |->
                        [key |-> TypographyKey(typography[i]), value |-> typography[i]]],
                     <<>>)
    IN  Slice([i \in 1..Len(map) |-> map[i].value], RenderedSliceLen)

(***************************************************************************)
(* Inputs of the pipeline                                                  *)
(***************************************************************************)
UrlOk == "https://acme.io/pricing"

UrlNoScheme == "acme.io/pricing"

\* new URL(url) succeeds: an absolute URL with a scheme
UrlParses(url) == url \in {UrlOk}

\* urlObj.hostname
Hostname(url) == IF url = UrlOk THEN <<"a","c","m","e",".","i","o">> ELSE <<>>

\* a request: entry "POST" is the route handler, "call" a direct analyzeWebsite call;
\* kind is the JSON type of the body's url ("missing": no such key)
Input(e, k, u, c) == [entry |-> e, kind |-> k, url |-> u, capture |-> c]

Inputs ==
    {Input("POST", "string", u, c) : u \in {UrlOk, UrlNoScheme, ""}, c \in BOOLEAN}
    \cup {Input("POST", k, "", FALSE) : k \in {"missing", "number"}}
    \cup {Input("call", "string", u, c) : u \in {UrlOk, UrlNoScheme}, c \in BOOLEAN}

\* a page with a title, colours in three spellings, a font and structural tags
MarkupRich ==
    << TitleTok(<<" ","A","c","m","e"," ">>),
       HexTok(<<"3","b","8","2","f","6">>),
       HexTok(<<"f","f","f">>),
       RgbTok("rgb", 255, 0, 0),
       FontTok(<<"'","I","n","t","e","r","'",","," ","s","a","n","s">>),
       TagTok("header"), TagTok("main"), TagTok("footer"),
       TagTok("h1"), TagTok("p") >>

\* a page in which no extractor finds anything
MarkupBare == << >>

Markups == {MarkupRich, MarkupBare}

\* how the awaited fetch(url) settles, and then res.text()
FetchOutcomes == {"ok", "http404", "abort", "network"}

BodyOutcomes == {"ok", "abort", "network"}

DataUri == "data:image/png;base64,iVBORw0KGgo="

\* new Date().toISOString() at the time of the run
IsoNow == "2026-01-01T00:00:00.000Z"

(***************************************************************************)
(* State                                                                   *)
(***************************************************************************)
VARIABLES
    rin,        \* request -> its input
    rpc,        \* request -> where its handler is suspended
    html,       \* request -> the fetched markup, once read
    static,     \* request -> title, designSystem, layout of analyzeWebsite
    retval,     \* request -> what captureScreenshot is going to return
    vbrowser,   \* request -> the browser launchBrowser started for it
    vpage,      \* request -> the page captureScreenshot opened
    fetches,    \* request -> HTTP fetches issued
    launches,   \* request -> browser launches issued
    result,     \* request -> the WebsiteAnalysis analyzeWebsite returned
    error,      \* request -> the message of the Error analyzeWebsite threw
    resp,       \* request -> the response of the route handler
    called,     \* request -> analyzeWebsite was entered (history)
    fstate,     \* request -> how the static fetch went (history)
    rfail,      \* request -> a step of the rendered path failed (history)
    revision,   \* which VisualAnalyzer class the shared instance is built from
    browser,    \* this.browser of the shared instance: 0 is null, else a browser
    launching,  \* this.launching of the shared instance
    bstat,      \* browser -> "none", "up", "down" (process exited) or "closed"
    crashes,    \* browser processes that exited on their own
    call,       \* caller -> its call of an operation of the shared instance
    ximpl,      \* the extractors applied: "analyzer", "prev" (part_005), "rendered"
    xmarkup,    \* the markup they are applied to
    xfont,      \* the typography entries read from a rendered page
    xstep,      \* extractor calls made so far
    xleft,      \* the Set the last extractColors call filled
    xcolors,    \* the palettes the extractColors calls returned, in order
    xnorm,      \* the normalizeColor calls of the last extractColors call
    xtypo,      \* the typography list returned
    xlayout     \* the layout returned

pvars == <<rin, rpc, html, static, retval, vbrowser, vpage, fetches, launches,
           result, error, resp, called, fstate, rfail>>

vvars == <<revision, browser, launching, bstat, crashes, call>>

xvars == <<ximpl, xmarkup, xfont, xstep, xleft, xcolors, xnorm, xtypo, xlayout>>

vars == <<pvars, vvars, xvars>>

(***************************************************************************)
(* lib/analyzer.ts: analyzeWebsite, and the route handler around it        *)
(***************************************************************************)
\* extractPageTitle(html) || urlObj.hostname
TitleOf(h, url) ==
    LET t == ExtractPageTitle(h)
    IN  IF IsSome(t) /\ Get(t) # <<>> THEN Get(t) ELSE Hostname(url)

\* step 3 of analyzeWebsite
ExtractStatic(h, url) ==
    [title |-> TitleOf(h, url),
     designSystem |-> ExtractDesignSystem(h),
     layout |-> ExtractLayoutStructure(h)]

\* mutant: a captured rendering overrides the layout found in the markup
AssembleMerged(url, st, screenshot, at) ==
    [url |-> url,
     title |-> st.title,
     screenshot |-> screenshot,
     designSystem |-> st.designSystem,
     layout |-> IF screenshot # Undefined
                THEN [type |-> "grid", sections |-> st.layout.sections]
                ELSE st.layout,
     extractedAt |-> at]

\* step 5 of analyzeWebsite: the returned object
Assemble(url, st, screenshot, at) ==
    [url |-> url,
     title |-> st.title,
     screenshot |-> screenshot,
     designSystem |-> st.designSystem,
     layout |-> st.layout,
     extractedAt |-> at]

\* (await visual.captureScreenshot(url)) || undefined
ScreenshotLocal(ret) == IF ret = Null \/ ret = "" THEN Undefined ELSE ret

\* NextResponse.json(v): JSON.stringify drops the keys whose value is undefined
JsonKeys(v) == {k \in DOMAIN v : k # "screenshot" \/ v[k] # Undefined}

Response(status, keys, err) == [status |-> status, keys |-> keys, error |-> err]

\* the handler goes on to its next suspension point
Goto(r, pc) ==
    /\ rpc' = [rpc EXCEPT ![r] = pc]
    /\ UNCHANGED <<result, error, resp>>

\* the route handler answers without calling analyzeWebsite
Reject(r, status, msg) ==
    /\ rpc' = [rpc EXCEPT ![r] = "done"]
    /\ resp' = [resp EXCEPT ![r] = Some(Response(status, {"error"}, msg))]
    /\ UNCHANGED <<result, error>>

\* analyzeWebsite throws; the route handler's catch answers 500
Throw(r, msg) ==
    /\ rpc' = [rpc EXCEPT ![r] = "done"]
    /\ error' = [error EXCEPT ![r] = Some(msg)]
    /\ resp' = [resp EXCEPT ![r] =
                  IF rin[r].entry = "POST" THEN Some(Response(500, {"error"}, msg))
                  ELSE None]
    /\ UNCHANGED result

\* analyzeWebsite returns; the route handler answers with NextResponse.json(analysis)
Return(r, st, ret) ==
    LET analysis == Assemble(rin[r].url, st, ScreenshotLocal(ret), IsoNow)
    IN  /\ rpc' = [rpc EXCEPT ![r] = "done"]
        /\ result' = [result EXCEPT ![r] = Some(analysis)]
        /\ resp' = [resp EXCEPT ![r] =
                      IF rin[r].entry = "POST"
                      THEN Some(Response(200, JsonKeys(analysis), ""))
                      ELSE None]
        /\ UNCHANGED error

\* mutant: the screenshot is attempted whatever the caller asked for
WantsScreenshotAlways(r) == TRUE

\* if (captureScreenshot)
WantsScreenshot(r) == rin[r].capture

\* mutant: fetch(url) is issued without new URL(url) having been tried
AnalyzeEntryNoValidation(r) ==
    /\ called' = [called EXCEPT ![r] = TRUE]
    /\ fetches' = [fetches EXCEPT ![r] = @ + 1]
    /\ fstate' = [fstate EXCEPT ![r] = "issued"]
    /\ Goto(r, "fetch")

\* analyzeWebsite up to its first await: new URL(url), then fetch(url) is issued
AnalyzeEntry(r) ==
    /\ called' = [called EXCEPT ![r] = TRUE]
    /\ IF UrlParses(rin[r].url)
       THEN /\ fetches' = [fetches EXCEPT ![r] = @ + 1]
            /\ fstate' = [fstate EXCEPT ![r] = "issued"]
            /\ Goto(r, "fetch")
       ELSE /\ Throw(r, "Invalid URL provided")
            /\ UNCHANGED <<fetches, fstate>>

\* mutant: the catch of step 2 logs and goes on with empty markup
FetchFailSwallowed(r, msg) ==
    /\ fstate' = [fstate EXCEPT ![r] = "failed"]
    /\ Return(r, ExtractStatic(MarkupBare, rin[r].url), Null)

\* fetchHTMLStrict rethrows what its try block threw; analyzeWebsite logs and rethrows
FetchFail(r, msg) ==
    /\ fstate' = [fstate EXCEPT ![r] = "failed"]
    /\ Throw(r, msg)

\* mutant: the route handler passes whatever url it got to analyzeWebsite
StartUnchecked(r) ==
    /\ rpc[r] = "new"
    /\ AnalyzeEntry(r)
    /\ UNCHANGED <<vvars, xvars>>
    /\ UNCHANGED <<rin, html, static, retval, vbrowser, vpage, launches, rfail>>

\* POST up to the call of analyzeWebsite, or analyzeWebsite called directly
Start(r) ==
    /\ rpc[r] = "new"
    /\ IF rin[r].entry = "POST" /\ (rin[r].kind # "string" \/ rin[r].url = "")
       THEN Reject(r, 400, "Valid URL required") /\ UNCHANGED <<fetches, called, fstate>>
       ELSE IF rin[r].entry = "POST" /\ ~UrlParses(rin[r].url)
       THEN Reject(r, 400, "Invalid URL format") /\ UNCHANGED <<fetches, called, fstate>>
       ELSE AnalyzeEntry(r)
    /\ UNCHANGED <<vvars, xvars>>
    /\ UNCHANGED <<rin, html, static, retval, vbrowser, vpage, launches, rfail>>

\* fetchHTMLStrict: the awaited fetch settles
FetchReturn(r) ==
    /\ rpc[r] = "fetch"
    /\ \E o \in FetchOutcomes :
         CASE o = "ok" -> Goto(r, "body") /\ UNCHANGED fstate
           [] o = "http404" -> FetchFail(r, "HTML fetch failed: HTTP 404 Not Found")
           [] o = "abort" -> FetchFail(r, "HTML fetch timeout (30s)")
           [] o = "network" -> FetchFail(r, "HTML fetch failed: fetch failed")
    /\ UNCHANGED <<vvars, xvars>>
    /\ UNCHANGED <<rin, html, static, retval, vbrowser, vpage, fetches, launches,
                   called, rfail>>

\* fetchHTMLStrict: res.text() settles; on success analyzeWebsite runs steps 3 and 4
\* up to the launch of the browser, or returns when no screenshot was asked for
BodyReturn(r) ==
    /\ rpc[r] = "body"
    /\ \E o \in BodyOutcomes :
         CASE o = "ok" ->
                \E m \in Markups :
                  LET st == ExtractStatic(m, rin[r].url)
                  IN  /\ fstate' = [fstate EXCEPT ![r] = "ok"]
                      /\ html' = [html EXCEPT ![r] = Some(m)]
                      /\ static' = [static EXCEPT ![r] = Some(st)]
                      /\ IF WantsScreenshot(r)
                         THEN /\ launches' = [launches EXCEPT ![r] = @ + 1]
                              /\ vbrowser' = [vbrowser EXCEPT ![r] = "launching"]
                              /\ Goto(r, "launch")
                         ELSE /\ Return(r, st, Null)
                              /\ UNCHANGED <<launches, vbrowser>>
           [] o = "abort" ->
                /\ FetchFail(r, "HTML fetch timeout (30s)")
                /\ UNCHANGED <<html, static, launches, vbrowser>>
           [] o = "network" ->
                /\ FetchFail(r, "HTML fetch failed: terminated")
                /\ UNCHANGED <<html, static, launches, vbrowser>>
    /\ UNCHANGED <<vvars, xvars>>
    /\ UNCHANGED <<rin, retval, vpage, fetches, called, rfail>>

(***************************************************************************)
(* lib/visual-analyzer.ts, last revision: launchBrowser and                *)
(* VisualAnalyzer.captureScreenshot, as analyzeWebsite step 4 runs them    *)
(***************************************************************************)
\* the finally block of captureScreenshot, entered with the value to return:
\* page?.close() is awaited when a page exists, else browser.close() directly
Finally(r, ret) ==
    /\ retval' = [retval EXCEPT ![r] = ret]
    /\ Goto(r, IF vpage[r] = "open" THEN "closePage" ELSE "closeBrowser")

\* mutant: the failure is rethrown and reaches the caller of analyzeWebsite
CaughtRethrown(r) ==
    /\ rfail' = [rfail EXCEPT ![r] = TRUE]
    /\ retval' = retval
    /\ Throw(r, "Screenshot failed")

\* the catch block of captureScreenshot: log, return null (through finally)
Caught(r) ==
    /\ rfail' = [rfail EXCEPT ![r] = TRUE]
    /\ Finally(r, Null)

\* launchBrowser settles: a browser, or null after the caught launch error;
\* with a browser captureScreenshot goes on to browser.newPage()
LaunchReturn(r) ==
    /\ rpc[r] = "launch"
    /\ \E ok \in BOOLEAN :
         IF ok
         THEN /\ vbrowser' = [vbrowser EXCEPT ![r] = "alive"]
              /\ Goto(r, "newPage")
              /\ rfail' = rfail
         ELSE /\ vbrowser' = [vbrowser EXCEPT ![r] = "failed"]
              /\ rfail' = [rfail EXCEPT ![r] = TRUE]
              /\ Return(r, Get(static[r]), Null)
    /\ UNCHANGED <<vvars, xvars>>
    /\ UNCHANGED <<rin, html, static, retval, vpage, fetches, launches, called, fstate>>

\* browser.newPage() settles
NewPageReturn(r) ==
    /\ rpc[r] = "newPage"
    /\ \E ok \in BOOLEAN :
         IF ok
         THEN /\ vpage' = [vpage EXCEPT ![r] = "open"]
              /\ UNCHANGED <<retval, rfail>>
              /\ Goto(r, "viewport")
         ELSE /\ vpage' = vpage
              /\ Caught(r)
    /\ UNCHANGED <<vvars, xvars>>
    /\ UNCHANGED <<rin, html, static, vbrowser, fetches, launches, called, fstate>>

\* page.setViewport() settles
ViewportReturn(r) ==
    /\ rpc[r] = "viewport"
    /\ \E ok \in BOOLEAN :
         IF ok THEN UNCHANGED <<retval, rfail>> /\ Goto(r, "goto")
         ELSE Caught(r)
    /\ UNCHANGED <<vvars, xvars>>
    /\ UNCHANGED <<rin, html, static, vbrowser, vpage, fetches, launches, called, fstate>>

\* page.goto(url, networkidle2, 25 s) settles: loaded, or a navigation error or timeout
GotoReturn(r) ==
    /\ rpc[r] = "goto"
    /\ \E ok \in BOOLEAN :
         IF ok THEN UNCHANGED <<retval, rfail>> /\ Goto(r, "screenshot")
         ELSE Caught(r)
    /\ UNCHANGED <<vvars, xvars>>
    /\ UNCHANGED <<rin, html, static, vbrowser, vpage, fetches, launches, called, fstate>>

\* page.screenshot() settles
ScreenshotReturn(r) ==
    /\ rpc[r] = "screenshot"
    /\ \E ok \in BOOLEAN :
         IF ok THEN Finally(r, DataUri) /\ UNCHANGED rfail
         ELSE Caught(r)
    /\ UNCHANGED <<vvars, xvars>>
    /\ UNCHANGED <<rin, html, static, vbrowser, vpage, fetches, launches, called, fstate>>

\* page.close() settles.  A rejection (the target is gone) is swallowed by the
\* inner try/catch, which also skips browser.close()
ClosePageReturn(r) ==
    /\ rpc[r] = "closePage"
    /\ vpage' = [vpage EXCEPT ![r] = "closed"]
    /\ \E ok \in BOOLEAN :
         IF ok THEN Goto(r, "closeBrowser")
         ELSE Return(r, Get(static[r]), retval[r])
    /\ UNCHANGED <<vvars, xvars>>
    /\ UNCHANGED <<rin, html, static, retval, vbrowser, fetches, launches,
                   called, fstate, rfail>>

\* browser.close() settles, resolved or rejected: the process is gone either way
CloseBrowserReturn(r) ==
    /\ rpc[r] = "closeBrowser"
    /\ vbrowser' = [vbrowser EXCEPT ![r] = "closed"]
    /\ Return(r, Get(static[r]), retval[r])
    /\ UNCHANGED <<vvars, xvars>>
    /\ UNCHANGED <<rin, html, static, retval, vpage, fetches, launches,
                   called, fstate, rfail>>

(***************************************************************************)
(* The VisualAnalyzer instance that getVisualAnalyzer() hands to every     *)
(* caller: the class with the launching latch and newSafePage ("manager"), *)
(* and the first revision of lib/visual-analyzer.ts ("legacy").            *)
(* A browser that is not connected is one whose process has exited, so its *)
(* pages are gone with it.                                                 *)
(***************************************************************************)
NCallers == 2

Callers == 1..NCallers

MaxCalls == 1

MaxCrashes == 1

\* the browser present at the start, and at most two launches a call
MaxBrowsers == 1 + 2 * NCallers * MaxCalls

Browsers == 1..MaxBrowsers

Revisions == {"manager", "legacy"}

Ops(rev) ==
    IF rev = "manager"
    THEN {"captureScreenshot", "fetchHTML", "extractVisualColors",
          "extractVisualTypography", "analyzeVisualLayout"}
    ELSE {"captureScreenshot", "extractVisualColors", "analyzeWebsite"}

\* the awaited step that follows step s of an operation when s resolves
StepOk(rev, op, s) ==
    IF rev = "manager"
    THEN CASE op = "captureScreenshot" /\ s = "setViewport" -> "goto"
           [] op = "captureScreenshot" /\ s = "goto" -> "screenshot"
           [] op = "fetchHTML" /\ s = "goto" -> "content"
           [] op \notin {"captureScreenshot", "fetchHTML"} /\ s = "goto" -> "evaluate"
           [] OTHER -> "return"
    ELSE CASE s = "setViewport" ->
                IF op = "extractVisualColors" THEN "goto" ELSE "setUserAgent"
           [] s = "setUserAgent" -> "goto"
           [] s = "goto" ->
                CASE op = "captureScreenshot" -> "content"
                  [] op = "extractVisualColors" -> "evaluate"
                  [] OTHER -> "waitLoad"
           [] s = "gotoFallback" ->
                IF op = "captureScreenshot" THEN "content" ELSE "allSettled"
           [] s = "content" -> "screenshot"
           [] s = "waitLoad" -> "recalc"
           [] s = "recalc" -> "allSettled"
           [] OTHER -> "return"

\* where an operation goes when step s rejects: another step, "throw" (the error
\* leaves the try block), "swallow" (analyzeWebsite's catch) or "return"
StepFail(rev, op, s) ==
    IF rev = "manager" \/ op = "extractVisualColors"
    THEN "throw"
    ELSE CASE s = "goto" -> "gotoFallback"
           [] op = "analyzeWebsite" /\ s = "waitLoad" -> "recalc"
           [] op = "analyzeWebsite" /\ s = "recalc" -> "gotoFallback"
           [] op = "analyzeWebsite" /\ s = "allSettled" -> "return"
           [] op = "analyzeWebsite" -> "swallow"
           [] OTHER -> "throw"

\* the options of the page.goto() that step s of an operation is ("last": the
\* launch-per-call captureScreenshot of the pipeline)
NavOptions(rev, op, s) ==
    CASE rev = "last" -> [waitUntil |-> "networkidle2", timeout |-> 25000]
      [] rev = "manager" /\ op = "fetchHTML" ->
            [waitUntil |-> "domcontentloaded", timeout |-> 20000]
      [] rev = "legacy" /\ op # "extractVisualColors" /\ s = "goto" ->
            [waitUntil |-> "domcontentloaded", timeout |-> 20000]
      [] OTHER -> [waitUntil |-> "networkidle2", timeout |-> 30000]

FirstStep(rev, op) == IF rev = "manager" /\ op # "captureScreenshot" THEN "goto" ELSE "setViewport"

\* a caller that has not called anything yet
NoCall ==
    [pc |-> "idle", op |-> "", try |-> 1, target |-> 0, step |-> "",
     pageB |-> 0, page |-> "none", out |-> "", calls |-> 0,
     launches |-> 0, opens |-> 0, init |-> "none", first |-> "none", retry |-> "none",
     navs |-> <<>>, settled |-> {}, rec |-> None]

\* mutant: a handle counts as healthy whether or not it is connected
HasHandle == browser # 0

\* isBrowserHealthy()
IsBrowserHealthy == browser # 0 /\ bstat[browser] = "up"

\* the next browser process puppeteer.launch() creates
NewBrowser == Cardinality({b \in Browsers : bstat[b] # "none"}) + 1

\* browser.close() has settled on browser b
Closed(bs, b) == [bs EXCEPT ![b] = "closed"]

\* the page of caller c exists
PageOpen(c) == call[c].page = "open" /\ bstat[call[c].pageB] = "up"

\* newSafePage: what follows a failure of init() or of newPage() - the catch block
\* in the try block, the caller of the operation in the catch block; the first
\* revision has no catch block
Fail(k, what) ==
    IF revision = "manager" /\ k.try = 1
    THEN [k EXCEPT !.pc = "caught", !.first = what]
    ELSE [k EXCEPT !.pc = "done", !.out = "threw"]

\* init() up to its first await: return on a healthy browser or on the latch,
\* else set the latch, call resetBrowser() and then puppeteer.launch()
InitEnter(c, k) ==
    IF IsBrowserHealthy \/ launching
    THEN /\ call' = [call EXCEPT ![c] =
                       [k EXCEPT !.pc = "initDone",
                                 !.init = IF IsBrowserHealthy THEN "healthy" ELSE "unhealthy",
                                 !.retry = IF k.try = 2 THEN "skipped" ELSE @]]
         /\ UNCHANGED <<browser, launching, bstat>>
    ELSE /\ launching' = TRUE
         /\ call' = [call EXCEPT ![c] =
                       IF browser # 0
                       THEN [k EXCEPT !.pc = "initReset", !.target = browser,
                                      !.retry = IF k.try = 2 THEN "launched" ELSE @]
                       ELSE [k EXCEPT !.pc = "launch", !.launches = @ + 1,
                                      !.retry = IF k.try = 2 THEN "launched" ELSE @]]
         /\ UNCHANGED <<browser, bstat>>

\* first revision: the operation's if (!this.browser) await this.init(), and
\* init()'s own if (!this.browser): launch only when there is no handle
LegacyEnter(c, k) ==
    /\ call' = [call EXCEPT ![c] =
                  IF browser = 0 THEN [k EXCEPT !.pc = "launch", !.launches = @ + 1]
                  ELSE [k EXCEPT !.pc = "initDone"]]
    /\ UNCHANGED <<browser, launching, bstat>>

\* a caller calls an operation of the shared instance
Call(c) ==
    /\ call[c].pc \in {"idle", "done"}
    /\ call[c].calls < MaxCalls
    /\ \E op \in Ops(revision) :
         LET k == [NoCall EXCEPT !.op = op, !.calls = call[c].calls + 1]
         IN  IF revision = "manager" THEN InitEnter(c, k) ELSE LegacyEnter(c, k)
    /\ UNCHANGED <<revision, crashes, pvars, xvars>>

\* init(): the browser.close() of resetBrowser() settles (a rejection is ignored),
\* the handle is set to null and puppeteer.launch() is called
InitResetReturn(c) ==
    /\ call[c].pc = "initReset"
    /\ bstat' = Closed(bstat, call[c].target)
    /\ browser' = 0
    /\ call' = [call EXCEPT ![c].pc = "launch", ![c].launches = @ + 1]
    /\ UNCHANGED <<revision, launching, crashes, pvars, xvars>>

\* mutant: init() throws with the latch still set
InitThrowKeepsLatch(c) ==
    /\ launching' = launching
    /\ call' = [call EXCEPT ![c] = Fail(call[c], "initThrew")]

\* init() throws after its catch block: the finally block clears the latch
InitThrow(c) ==
    /\ launching' = (IF revision = "manager" THEN FALSE ELSE launching)
    /\ call' = [call EXCEPT ![c] = Fail(call[c], "initThrew")]

\* puppeteer.launch() settles.  On a rejection the catch block's resetBrowser()
\* finds the handle null (LatchHolderOwnsHandle), so it closes nothing
InitLaunchReturn(c) ==
    /\ call[c].pc = "launch"
    /\ \E ok \in BOOLEAN :
         IF ok
         THEN /\ bstat' = [bstat EXCEPT ![NewBrowser] = "up"]
              /\ browser' = NewBrowser
              /\ launching' = (IF revision = "manager" THEN FALSE ELSE launching)
              /\ call' = [call EXCEPT ![c].pc = "initDone", ![c].init = "healthy"]
         ELSE /\ browser' = (IF revision = "manager" THEN 0 ELSE browser)
              /\ bstat' = bstat
              /\ InitThrow(c)
    /\ UNCHANGED <<revision, crashes, pvars, xvars>>

\* after await this.init(): this.browser!.newPage() is called
NewPage(c) ==
    /\ call[c].pc = "initDone"
    /\ call' = [call EXCEPT ![c] =
                  IF browser = 0
                  THEN Fail([@ EXCEPT !.opens = @ + 1], "openFailed")
                  ELSE [@ EXCEPT !.pc = "newPage", !.target = browser, !.opens = @ + 1]]
    /\ UNCHANGED <<revision, browser, launching, bstat, crashes, pvars, xvars>>

\* browser.newPage() settles; with a page the operation issues its first step
SafePageReturn(c) ==
    /\ call[c].pc = "newPage"
    /\ \E ok \in BOOLEAN :
         call' = [call EXCEPT ![c] =
                    IF ok /\ bstat[@.target] = "up"
                    THEN [@ EXCEPT !.pc = "body", !.pageB = call[c].target,
                                   !.page = "open",
                                   !.step = FirstStep(revision, call[c].op)]
                    ELSE Fail(@, "openFailed")]
    /\ UNCHANGED <<revision, browser, launching, bstat, crashes, pvars, xvars>>

\* the catch block of newSafePage up to its first await: resetBrowser()
Catch(c) ==
    /\ call[c].pc = "caught"
    /\ call' = [call EXCEPT ![c] =
                  IF browser # 0
                  THEN [@ EXCEPT !.pc = "retryReset", !.try = 2, !.target = browser]
                  ELSE [@ EXCEPT !.pc = "retryInit", !.try = 2]]
    /\ UNCHANGED <<revision, browser, launching, bstat, crashes, pvars, xvars>>

\* the catch block's resetBrowser(): browser.close() settles, the handle is nulled
RetryResetReturn(c) ==
    /\ call[c].pc = "retryReset"
    /\ bstat' = Closed(bstat, call[c].target)
    /\ browser' = 0
    /\ call' = [call EXCEPT ![c].pc = "retryInit"]
    /\ UNCHANGED <<revision, launching, crashes, pvars, xvars>>

\* the catch block's await this.init()
RetryInit(c) ==
    /\ call[c].pc = "retryInit"
    /\ InitEnter(c, call[c])
    /\ UNCHANGED <<revision, crashes, pvars, xvars>>

\* the four extractions analyzeWebsite runs on the loaded page
Extractions == {"screenshot", "colors", "typography", "layout"}

\* how Promise.allSettled can settle at step s: any of the four fulfilled while the
\* page exists, none once it is gone
Settlements(c, s) ==
    IF s = "allSettled" /\ PageOpen(c) THEN SUBSET Extractions ELSE {{}}

\* the record analyzeWebsite returns when the extractions in S fulfilled: the
\* others keep the values they were declared with
VisualRecord(S) ==
    [screenshot |-> IF "screenshot" \in S THEN DataUri ELSE "",
     colors |-> IF "colors" \in S THEN <<"extracted">> ELSE <<>>,
     typography |-> IF "typography" \in S THEN <<"extracted">> ELSE <<>>,
     layout |-> IF "layout" \in S
                THEN [type |-> "single-column", sections |-> <<"header", "main", "footer">>]
                ELSE [type |-> "multi-column", sections |-> <<>>]]

\* mutant: only the success path closes the page
ClosePageOnSuccess(k, out) ==
    IF out = "returned" THEN [k EXCEPT !.pc = "closePage", !.out = out, !.step = ""]
    ELSE [k EXCEPT !.pc = "done", !.out = out, !.step = ""]

\* the finally block of an operation: page.close() is called and awaited
ClosePage(k, out) == [k EXCEPT !.pc = "closePage", !.out = out, !.step = ""]

\* the awaited step of an operation settles; a page.goto() that settles is
\* noted in navs (history); analyzeWebsite's record is what its last step left
StepReturn(c) ==
    /\ call[c].pc = "body"
    /\ \E ok \in BOOLEAN, S \in Settlements(c, call[c].step) :
         LET k0 == call[c]
             k1 == IF k0.step \in {"goto", "gotoFallback"}
                   THEN [k0 EXCEPT !.navs =
                           Append(@, [options |-> NavOptions(revision, k0.op, k0.step),
                                      ok |-> ok /\ PageOpen(c)])]
                   ELSE k0
             k == IF revision = "legacy" /\ k0.op = "analyzeWebsite"
                  THEN [k1 EXCEPT !.settled = S, !.rec = Some(VisualRecord(S))]
                  ELSE k1
             nxt == IF ok /\ PageOpen(c) THEN StepOk(revision, k.op, k.step)
                    ELSE StepFail(revision, k.op, k.step)
         IN  call' = [call EXCEPT ![c] =
                        CASE nxt \in {"return", "swallow"} -> ClosePage(k, "returned")
                          [] nxt = "throw" -> ClosePage(k, "threw")
                          [] OTHER -> [k EXCEPT !.step = nxt]]
    /\ UNCHANGED <<revision, browser, launching, bstat, crashes, pvars, xvars>>

\* page.close() settles: the page is closed, or the call rejects because the
\* target is gone and the operation ends with that error
PageCloseReturn(c) ==
    /\ call[c].pc = "closePage"
    /\ call' = [call EXCEPT ![c] =
                  IF PageOpen(c) THEN [@ EXCEPT !.pc = "done", !.page = "closed"]
                  ELSE [@ EXCEPT !.pc = "done", !.page = "gone", !.out = "threw"]]
    /\ UNCHANGED <<revision, browser, launching, bstat, crashes, pvars, xvars>>

\* a browser process exits on its own
Crash(b) ==
    /\ bstat[b] = "up"
    /\ crashes < MaxCrashes
    /\ bstat' = [bstat EXCEPT ![b] = "down"]
    /\ crashes' = crashes + 1
    /\ UNCHANGED <<revision, browser, launching, call, pvars, xvars>>

\* no caller uses the shared instance
VisualOff ==
    /\ revision = "manager"
    /\ browser = 0
    /\ launching = FALSE
    /\ bstat = [b \in Browsers |-> "none"]
    /\ crashes = 0
    /\ call = [c \in Callers |-> [NoCall EXCEPT !.calls = MaxCalls]]

(***************************************************************************)
(* The extractors applied to markup: colours three times in a row (on a    *)
(* markup, on another one, on the first again), then typography and        *)
(* layout; or the typography of a rendered page deduplicated.              *)
(***************************************************************************)
\* colours of the <style> block a markup starts with
MaxPalette == 11

\* pieces of markup after that block
MaxPieces == 2

\* calls of extractColors in a row
ColorRuns == 3

\* elements read from a rendered page
MaxElements == 3

\* the i-th colour of the leading <style> block, six upper-case digits
Swatch(i) == HexTok(<<HexDigitChar(i), "0", "8", "0", "C", "0">>)

PaletteBlock(n) ==
    IF n = 0 THEN <<>>
    ELSE <<StyleOpenTok>> \o [i \in 1..n |-> Swatch(i)] \o <<StyleCloseTok>>

\* one colour in several spellings, black and white, a component out of range,
\* and values in other notations
ColorToks ==
    { HexTok(<<"a","b","c">>), HexTok(<<"A","a","B","b","C","c">>),
      HexTok(<<"A","A","B","B","C","C">>),
      RgbTok("rgb", 170, 187, 204), RgbTok("rgba", 170, 187, 204),
      HexTok(<<"f","f","f">>), RgbTok("rgb", 0, 0, 0), RgbTok("rgb", 300, 0, 0),
      OtherTok("hsl"), OtherTok("red") }

InterFont == FontTok(<<" ","'","I","n","t","e","r","'",","," ","s","a","n","s">>)

ArialFont == FontTok(<<"A","r","i","a","l">>)

\* a colour anywhere in the markup, in a <style> block, or in a style attribute;
\* tags, words and font declarations
Pieces ==
    {<<t>> : t \in ColorToks}
    \cup {<<StyleOpenTok, t, StyleCloseTok>> : t \in ColorToks \cup {InterFont, ArialFont}}
    \cup {<<AttrOpenTok, t, AttrCloseTok>> : t \in ColorToks}
    \cup {<<TagTok(n)>> : n \in {"h1", "h2", "p", "a", "header", "nav", "main", "footer"}}
    \cup {<<InterFont>>, <<TextTok("main")>>}

RECURSIVE PieceSeqs(_)
PieceSeqs(n) ==
    IF n = 0 THEN {<<>>}
    ELSE PieceSeqs(n - 1) \cup {s \o p : s \in PieceSeqs(n - 1), p \in Pieces}

MarkupInputs == {PaletteBlock(n) \o b : n \in 0..MaxPalette, b \in PieceSeqs(MaxPieces)}

\* the markup of the call between two calls on the same markup
Warmup == <<StyleOpenTok, HexTok(<<"1","2","3","4","5","6">>), StyleCloseTok>>

\* what page.evaluate returns for one element
FontData ==
    {Typo(f, w, sz, "1.5", u) :
        f \in {<<"I","n","t","e","r">>, <<"A","r","i","a","l">>},
        w \in {400}, sz \in {"16px", "32px"}, u \in {"heading", "body", "caption"}}

RECURSIVE FontLists(_)
FontLists(n) ==
    IF n = 0 THEN {<<>>}
    ELSE FontLists(n - 1) \cup {Append(s, e) : s \in FontLists(n - 1), e \in FontData}

\* mutant: the Set of the previous call is used again
ReusedSet(left) == left

\* new Set<string>()
NewSet(left) == <<>>

\* the calls of normalizeColor one run of extractColors makes, with their results
NormLog(impl, m) ==
    LET style == FlatSeq(Blocks(m, "styleOpen", "styleClose"))
        attr == FlatSeq(Blocks(m, "attrOpen", "attrClose"))
        args == IF impl = "analyzer" THEN SelectSeq(m, IsColorMatch)
                ELSE SelectSeq(style, LAMBDA t : IsColorMatch(t) \/ (t.k = "other" /\ t.s = "hsl"))
                     \o SelectSeq(attr, LAMBDA t : t.k \in {"hex", "rgb", "other"})
    IN  [i \in 1..Len(args) |->
            [tok |-> args[i],
             hex |-> IF impl = "analyzer" THEN NormalizeColor(args[i])
                     ELSE PrevNormalizeColor(args[i])]]

\* the markup of the i-th call of extractColors
RunMarkup(i) == IF i % 2 = 1 THEN xmarkup ELSE Warmup

\* extractColors(html)
ExtractColorsCall ==
    /\ ximpl \in {"analyzer", "prev"}
    /\ xstep < ColorRuns
    /\ LET m == RunMarkup(xstep + 1)
           set == IF ximpl = "analyzer" THEN ColorSet(m, NewSet(xleft))
                  ELSE PrevColorSet(m, NewSet(xleft))
       IN  /\ xcolors' = Append(xcolors, IF ximpl = "analyzer" THEN Palette(set)
                                         ELSE PrevPalette(set))
           /\ xleft' = set
           /\ xnorm' = NormLog(ximpl, m)
    /\ xstep' = xstep + 1
    /\ UNCHANGED <<ximpl, xmarkup, xfont, xtypo, xlayout, pvars, vvars>>

\* extractTypography(html)
ExtractTypographyCall ==
    /\ ximpl \in {"analyzer", "prev"}
    /\ xstep = ColorRuns
    /\ xtypo' = Some(IF ximpl = "analyzer" THEN ExtractTypography(xmarkup)
                     ELSE PrevExtractTypography(xmarkup))
    /\ xstep' = xstep + 1
    /\ UNCHANGED <<ximpl, xmarkup, xfont, xleft, xcolors, xnorm, xlayout, pvars, vvars>>

\* extractLayoutStructure(html)
ExtractLayoutCall ==
    /\ ximpl \in {"analyzer", "prev"}
    /\ xstep = ColorRuns + 1
    /\ xlayout' = Some(IF ximpl = "analyzer" THEN ExtractLayoutStructure(xmarkup)
                       ELSE PrevExtractLayoutStructure(xmarkup))
    /\ xstep' = xstep + 1
    /\ UNCHANGED <<ximpl, xmarkup, xfont, xleft, xcolors, xnorm, xtypo, pvars, vvars>>

\* extractVisualTypography after page.evaluate: deduplicate and slice
UniqueTypographyCall ==
    /\ ximpl = "rendered"
    /\ xstep = 0
    /\ xtypo' = Some(UniqueTypography(xfont))
    /\ xstep' = xstep + 1
    /\ UNCHANGED <<ximpl, xmarkup, xfont, xleft, xcolors, xnorm, xlayout, pvars, vvars>>

\* no extractor is being applied
ExtractOff ==
    /\ ximpl = "off"
    /\ xmarkup = <<>>
    /\ xfont = <<>>
    /\ xstep = 0
    /\ xleft = <<>>
    /\ xcolors = <<>>
    /\ xnorm = <<>>
    /\ xtypo = None
    /\ xlayout = None

(***************************************************************************)
(* The pipeline                                                            *)
(***************************************************************************)
Init ==
    /\ rin \in [Requests -> Inputs]
    /\ rpc = [r \in Requests |-> "new"]
    /\ html = [r \in Requests |-> None]
    /\ static = [r \in Requests |-> None]
    /\ retval = [r \in Requests |-> Null]
    /\ vbrowser = [r \in Requests |-> "none"]
    /\ vpage = [r \in Requests |-> "none"]
    /\ fetches = [r \in Requests |-> 0]
    /\ launches = [r \in Requests |-> 0]
    /\ result = [r \in Requests |-> None]
    /\ error = [r \in Requests |-> None]
    /\ resp = [r \in Requests |-> None]
    /\ called = [r \in Requests |-> FALSE]
    /\ fstate = [r \in Requests |-> "none"]
    /\ rfail = [r \in Requests |-> FALSE]
    /\ VisualOff
    /\ ExtractOff

Next ==
    \E r \in Requests :
        \/ Start(r)
        \/ FetchReturn(r)
        \/ BodyReturn(r)
        \/ LaunchReturn(r)
        \/ NewPageReturn(r)
        \/ ViewportReturn(r)
        \/ GotoReturn(r)
        \/ ScreenshotReturn(r)
        \/ ClosePageReturn(r)
        \/ CloseBrowserReturn(r)

Spec == Init /\ [][Next]_vars

\* the awaited operations the code bounds by a timeout settle: fetch() and
\* res.text() by the 30 s abort of fetchHTMLStrict, page.goto() by its 25 s
\* timeout; the handler itself runs up to its first await.  puppeteer.launch(),
\* newPage(), setViewport(), screenshot() and the two close() calls are
\* awaited without a timeout
TimeoutFairness ==
    \A r \in Requests :
        /\ WF_vars(Start(r))
        /\ WF_vars(FetchReturn(r))
        /\ WF_vars(BodyReturn(r))
        /\ WF_vars(GotoReturn(r))

SpecTimeouts == Init /\ [][Next]_vars /\ TimeoutFairness

\* every awaited operation settles, by a timeout of the code or of the library
SettleFairness ==
    \A r \in Requests :
        /\ WF_vars(LaunchReturn(r))
        /\ WF_vars(NewPageReturn(r))
        /\ WF_vars(ViewportReturn(r))
        /\ WF_vars(ScreenshotReturn(r))
        /\ WF_vars(ClosePageReturn(r))
        /\ WF_vars(CloseBrowserReturn(r))

SpecSettling == SpecTimeouts /\ SettleFairness

(***************************************************************************)
(* Callers of the shared VisualAnalyzer instance                           *)
(***************************************************************************)
\* no request is in the pipeline
PipelineOff ==
    /\ rin = [r \in Requests |-> Input("call", "string", UrlOk, FALSE)]
    /\ rpc = [r \in Requests |-> "off"]
    /\ html = [r \in Requests |-> None]
    /\ static = [r \in Requests |-> None]
    /\ retval = [r \in Requests |-> Null]
    /\ vbrowser = [r \in Requests |-> "none"]
    /\ vpage = [r \in Requests |-> "none"]
    /\ fetches = [r \in Requests |-> 0]
    /\ launches = [r \in Requests |-> 0]
    /\ result = [r \in Requests |-> None]
    /\ error = [r \in Requests |-> None]
    /\ resp = [r \in Requests |-> None]
    /\ called = [r \in Requests |-> FALSE]
    /\ fstate = [r \in Requests |-> "none"]
    /\ rfail = [r \in Requests |-> FALSE]

\* the instance was just built, or an earlier call left it a browser that is
\* still connected or whose process has exited since
InitVisual ==
    /\ PipelineOff
    /\ ExtractOff
    /\ revision \in Revisions
    /\ launching = FALSE
    /\ crashes = 0
    /\ call = [c \in Callers |-> NoCall]
    /\ \E st \in {"none", "up", "down"} :
         /\ browser = (IF st = "none" THEN 0 ELSE 1)
         /\ bstat = [b \in Browsers |-> IF b = 1 THEN st ELSE "none"]

NextVisual ==
    \/ \E c \in Callers :
        \/ Call(c)
        \/ InitResetReturn(c)
        \/ InitLaunchReturn(c)
        \/ NewPage(c)
        \/ SafePageReturn(c)
        \/ Catch(c)
        \/ RetryResetReturn(c)
        \/ RetryInit(c)
        \/ StepReturn(c)
        \/ PageCloseReturn(c)
    \/ \E b \in Browsers : Crash(b)

SpecVisual == InitVisual /\ [][NextVisual]_vars

\* while init() awaits puppeteer.launch() nobody else assigns the handle
LatchHolderOwnsHandle ==
    revision = "manager" => \A c \in Callers : call[c].pc = "launch" => browser = 0

(***************************************************************************)
(* Every rendered-path operation: the pipeline's and the shared instance's *)
(***************************************************************************)
InitPages == Init \/ InitVisual

NextPages == Next \/ NextVisual

SpecPages == InitPages /\ [][NextPages]_vars

(***************************************************************************)
(* The extractors on their own                                             *)
(***************************************************************************)
InitExtract ==
    /\ PipelineOff
    /\ VisualOff
    /\ \/ /\ ximpl \in {"analyzer", "prev"}
          /\ xmarkup \in MarkupInputs
          /\ xfont = <<>>
       \/ /\ ximpl = "rendered"
          /\ xmarkup = <<>>
          /\ xfont \in FontLists(MaxElements)
    /\ xstep = 0
    /\ xleft = <<>>
    /\ xcolors = <<>>
    /\ xnorm = <<>>
    /\ xtypo = None
    /\ xlayout = None

NextExtract ==
    \/ ExtractColorsCall
    \/ ExtractTypographyCall
    \/ ExtractLayoutCall
    \/ UniqueTypographyCall

SpecExtract == InitExtract /\ [][NextExtract]_vars

(***************************************************************************)
(* Properties of the pipeline                                              *)
(***************************************************************************)
FetchErrors ==
    {"HTML fetch failed: HTTP 404 Not Found", "HTML fetch timeout (30s)",
     "HTML fetch failed: fetch failed", "HTML fetch failed: terminated"}

\* the markup-derived fields of a result are those extracted from the markup h
StaticFieldsFrom(res, h, url) ==
    /\ res.title = TitleOf(h, url)
    /\ res.designSystem = ExtractDesignSystem(h)
    /\ res.layout = ExtractLayoutStructure(h)

\* a result with every mandatory field present and no mandatory list empty
Complete(res, r) ==
    /\ res.url = rin[r].url
    /\ Len(res.title) > 0
    /\ Len(res.designSystem.colors) > 0
    /\ Len(res.designSystem.typography) > 0
    /\ DOMAIN res.designSystem.spacing # {}
    /\ DOMAIN res.designSystem.borderRadii # {}
    /\ DOMAIN res.designSystem.breakpoints # {}
    /\ res.layout.type \in {"single-column", "multi-column", "grid"}
    /\ Len(res.layout.sections) > 0
    /\ res.extractedAt = IsoNow
    /\ res.screenshot \in {Undefined, DataUri}

\* C1: a request with a well-formed URL whose static fetch fails (non-2xx status,
\* abort/timeout, network error) ends in an error, with no result, no extraction,
\* no browser and no screenshot, whatever captureScreenshot is.
C1_StaticFetchFailureIsFatal ==
    \A r \in Requests :
        fstate[r] = "failed" =>
            /\ UrlParses(rin[r].url)
            /\ rpc[r] = "done"
            /\ IsSome(error[r]) /\ Get(error[r]) \in FetchErrors
            /\ result[r] = None
            /\ html[r] = None /\ static[r] = None
            /\ launches[r] = 0 /\ vbrowser[r] = "none" /\ vpage[r] = "none"
            /\ retval[r] = Null

C1_Witness ==
    \E r1, r2 \in Requests :
        /\ fstate[r1] = "failed" /\ rin[r1].capture
        /\ fstate[r2] = "failed" /\ ~rin[r2].capture

\* C2: with captureScreenshot = true and the static fetch done, a failure of the
\* rendered path (launch, page open, viewport, navigation, screenshot) never makes
\* analyzeWebsite throw: the run ends with a result whose url, title, designSystem,
\* layout and extractedAt are populated from the markup and whose screenshot is absent.
C2_RenderedFailureAbsorbed ==
    \A r \in Requests :
        rfail[r] =>
            /\ rin[r].capture /\ fstate[r] = "ok"
            /\ error[r] = None
            /\ rpc[r] = "done" =>
                 /\ IsSome(result[r])
                 /\ Get(result[r]).screenshot = Undefined
                 /\ Complete(Get(result[r]), r)
                 /\ StaticFieldsFrom(Get(result[r]), Get(html[r]), rin[r].url)

C2_Witness ==
    \E r1, r2 \in Requests :
        /\ rpc[r1] = "done" /\ rfail[r1] /\ vbrowser[r1] = "failed"
        /\ rpc[r2] = "done" /\ rfail[r2] /\ vpage[r2] = "closed"

\* C3: a browser is launched, and a page opened, only for a request with
\* captureScreenshot = true whose static fetch and static extraction are complete; a
\* request without captureScreenshot or with a failed fetch never launches one.
C3_BrowserOnlyAfterStatic ==
    \A r \in Requests :
        /\ (launches[r] > 0 \/ vbrowser[r] # "none" \/ vpage[r] # "none") =>
               /\ rin[r].capture
               /\ fstate[r] = "ok"
               /\ IsSome(html[r])
               /\ IsSome(static[r])
               /\ StaticFieldsFrom(Get(static[r]), Get(html[r]), rin[r].url)
        /\ (~rin[r].capture \/ fstate[r] = "failed") => launches[r] = 0

C3_Witness ==
    \E r1, r2 \in Requests :
        /\ vbrowser[r1] = "alive" /\ vpage[r1] = "open"
        /\ rpc[r2] = "done" /\ ~rin[r2].capture /\ IsSome(result[r2])

\* C4: for an input string that does not parse as a URL the run fails with the
\* invalid-URL error and issues no fetch and launches no browser; a fetch is issued
\* only for a URL that parsed.
C4_InvalidUrlNoIO ==
    \A r \in Requests :
        /\ (rin[r].kind = "string" /\ ~UrlParses(rin[r].url)) =>
               /\ fetches[r] = 0 /\ fstate[r] = "none"
               /\ launches[r] = 0 /\ vbrowser[r] = "none" /\ vpage[r] = "none"
               /\ result[r] = None
               /\ (rpc[r] = "done" /\ rin[r].entry = "call") =>
                      error[r] = Some("Invalid URL provided")
               /\ (rpc[r] = "done" /\ rin[r].entry = "POST") =>
                      /\ IsSome(resp[r]) /\ Get(resp[r]).status = 400
                      /\ ~called[r]
        /\ fetches[r] > 0 => UrlParses(rin[r].url)

C4_Witness ==
    \E r1, r2 \in Requests :
        /\ rin[r1].entry = "call" /\ rin[r1].url = UrlNoScheme /\ rin[r1].capture
        /\ error[r1] = Some("Invalid URL provided")
        /\ rin[r2].entry = "POST" /\ rin[r2].url = UrlNoScheme /\ rpc[r2] = "done"

\* C5: the title, designSystem and layout of a result are those extracted from the
\* fetched markup, so two runs on the same URL and markup agree on them whether
\* captureScreenshot was false, true with a screenshot, or true with a failed
\* rendered path; only the screenshot field differs.
C5_RenderedPathChangesOnlyScreenshot ==
    /\ \A r \in Requests :
           IsSome(result[r]) =>
               StaticFieldsFrom(Get(result[r]), Get(html[r]), rin[r].url)
    /\ \A r1, r2 \in Requests :
           (/\ IsSome(result[r1]) /\ IsSome(result[r2])
            /\ html[r1] = html[r2] /\ rin[r1].url = rin[r2].url) =>
               /\ Get(result[r1]).title = Get(result[r2]).title
               /\ Get(result[r1]).designSystem = Get(result[r2]).designSystem
               /\ Get(result[r1]).layout = Get(result[r2]).layout

C5_Witness ==
    \E r1, r2 \in Requests :
        /\ IsSome(result[r1]) /\ IsSome(result[r2])
        /\ html[r1] = html[r2] /\ html[r1] = Some(MarkupRich)
        /\ rin[r1].capture /\ Get(result[r1]).screenshot = DataUri
        /\ Get(result[r2]).screenshot = Undefined

\* C6: every run of analyzeWebsite ends in exactly one of a complete result (every
\* mandatory field present, colors, typography and sections non-empty) or one error
\* from URL validation or the static fetch; never both, never a partial result.
C6_ResultXorError ==
    \A r \in Requests :
        /\ ~(IsSome(result[r]) /\ IsSome(error[r]))
        /\ rpc[r] # "done" => (result[r] = None /\ error[r] = None)
        /\ (rpc[r] = "done" /\ called[r]) => (IsSome(result[r]) \/ IsSome(error[r]))
        /\ ~called[r] => (result[r] = None /\ error[r] = None)
        /\ IsSome(result[r]) => Complete(Get(result[r]), r)
        /\ IsSome(error[r]) =>
               \/ Get(error[r]) = "Invalid URL provided" /\ ~UrlParses(rin[r].url)
               \/ Get(error[r]) \in FetchErrors /\ fstate[r] = "failed"

C6_Witness ==
    \E r1, r2 \in Requests :
        /\ IsSome(result[r1]) /\ html[r1] = Some(MarkupBare)
        /\ IsSome(error[r2])

\* C7: at most one browser process launched by the engine is alive at any moment,
\* over any interleaving of requests with captureScreenshot = true.
C7_AtMostOneBrowserAlive ==
    Cardinality({r \in Requests : vbrowser[r] = "alive"}) <= 1

(***************************************************************************)
(* Properties of the shared VisualAnalyzer instance                        *)
(***************************************************************************)
\* C8: on the manager, concurrent init() calls converge on one launch: at most one
\* puppeteer.launch() is in flight, and every init() that returned without an
\* error left its caller a non-null, connected browser handle.
C8_ConcurrentInitConverges ==
    revision = "manager" =>
        /\ Cardinality({c \in Callers : call[c].pc = "launch"}) <= 1
        /\ \A c \in Callers : call[c].init # "unhealthy"

\* C9: a newSafePage call whose page open failed after init() had returned resets
\* the browser, relaunches once and tries to open a page once more; a failure of
\* the retry reaches the caller.  A call launches at most twice and attempts to
\* open a page at most twice.
C9_RelaunchOnceRetryOnce ==
    revision = "manager" =>
        \A c \in Callers :
            /\ call[c].launches <= 2
            /\ call[c].opens <= 2
            /\ (call[c].first = "openFailed" /\ call[c].try = 2
                  /\ call[c].pc \notin {"retryReset", "retryInit"})
                  => call[c].retry = "launched"
            /\ (call[c].try = 2 /\ call[c].pc = "done" /\ call[c].page = "none")
                  => call[c].out = "threw"

UpperHexChars ==
    {"0","1","2","3","4","5","6","7","8","9","A","B","C","D","E","F"}

\* ^#[0-9A-F]{6}$
IsCanonicalHex(h) ==
    /\ Len(h) = 7
    /\ h[1] = "#"
    /\ \A i \in 2..7 : h[i] \in UpperHexChars

\* the palettes returned so far
Outputs == {xcolors[r] : r \in 1..Len(xcolors)}

\* the palette substituted by the extractor applied when it accepted no colour
FallbackOf(impl) == IF impl = "analyzer" THEN ColorFallback ELSE PrevColorFallback

\* C11: every colour entry the markup-mode colour extractor returns has a hex
\* of '#' and six characters of 0-9A-F, and no entry is #000000 or #FFFFFF
\* unless the whole output is the fallback palette.
C11_CanonicalHexes ==
    \A out \in Outputs :
        /\ \A j \in 1..Len(out) : IsCanonicalHex(out[j].hex)
        /\ \/ out = FallbackOf(ximpl)
           \/ \A j \in 1..Len(out) : out[j].hex \notin {BlackHex, WhiteHex}

\* C12: the colour extractor's output never has two entries whose hexes are
\* equal when compared case-insensitively, whatever spellings (upper or lower
\* case, 3 or 6 digits, rgb()) the same colour occurs in.
C12_NoCaseInsensitiveDuplicates ==
    \A out \in Outputs :
        \A i, j \in 1..Len(out) :
            i # j => ToUpperCase(out[i].hex) # ToUpperCase(out[j].hex)

\* the hexes of a palette, in order
Hexes(out) == [j \in 1..Len(out) |-> out[j].hex]

\* the distinct colours the last extractColors call accepted, in the order it
\* met them
Accepted ==
    LET valid(e) == /\ IsSome(e.hex)
                    /\ IF ximpl = "analyzer" THEN IsValidColor(Get(e.hex))
                       ELSE PrevIsValidColor(Get(e.hex))
        kept == SelectSeq(xnorm, valid)
    IN  Dedupe([i \in 1..Len(kept) |-> Get(kept[i].hex)], <<>>)

\* the palette the last extractColors call returned
LastColors == xcolors[Len(xcolors)]

C14_FallbackOfFive ==
    (Len(xcolors) >= 1 /\ Accepted = <<>>) =>
        Hexes(LastColors) =
            << BlackHex, WhiteHex,
               <<"#","3","B","8","2","F","6">>,
               <<"#","6","3","6","6","F","1">>,
               <<"#","8","B","5","C","F","6">> >>

\* C15: the colours list has at least 1 and at most 10 entries, and they are
\* the first distinct accepted colours in the order they were discovered.
C15_FirstTenInDiscoveryOrder ==
    Len(xcolors) >= 1 =>
        /\ Len(LastColors) >= 1
        /\ Len(LastColors) <= 10
        /\ Accepted # <<>> =>
              /\ Len(LastColors) = (IF Len(Accepted) < 10 THEN Len(Accepted) ELSE 10)
              /\ \A j \in 1..Len(LastColors) : LastColors[j].hex = Accepted[j]

\* more than ten distinct colours were accepted and ten were returned
C15_Witness ==
    /\ Len(xcolors) >= 1
    /\ ximpl = "analyzer"
    /\ Len(Accepted) > 10
    /\ Len(LastColors) = 10
    /\ LastColors[10].hex = Accepted[10]

\* C16: the usage of the extracted colour at index i of the deduplicated
\* sequence is the (i mod 5)-th element of the cycle primary, secondary,
\* accent, neutral, background.
C16_UsageCycleOfFive ==
    (Len(xcolors) >= 1 /\ Accepted # <<>>) =>
        \A j \in 1..Len(LastColors) :
            LastColors[j].usage =
                <<"primary", "secondary", "accent", "neutral", "background">>[((j - 1) % 5) + 1]

\* C17: no typography result has two entries with the same (fontFamily, usage)
\* pair, for every markup and for every list of elements of a rendered page.
C17_UniqueFamilyUsagePairs ==
    IsSome(xtypo) =>
        LET t == Get(xtypo)
        IN  \A i, j \in 1..Len(t) :
                i # j => <<t[i].fontFamily, t[i].usage>> # <<t[j].fontFamily, t[j].usage>>

\* a rendered page gave two elements of one family and usage, and one entry of
\* the result stands for them
C17_Witness ==
    /\ ximpl = "rendered"
    /\ IsSome(xtypo)
    /\ \E i, j \in 1..Len(xfont) :
          /\ i # j
          /\ xfont[i].fontFamily = xfont[j].fontFamily
          /\ xfont[i].usage = xfont[j].usage
          /\ \E k \in 1..Len(Get(xtypo)) :
                /\ Get(xtypo)[k].fontFamily = xfont[i].fontFamily
                /\ Get(xtypo)[k].usage = xfont[i].usage
    /\ Len(Get(xtypo)) >= 2

\* the markup has no heading, body or caption-like element
NoTextElement(m) ==
    \A i \in 1..Len(m) :
        m[i].k = "tag" =>
            m[i].s \notin {"h1", "h2", "h3", "h4", "H1", "p", "P", "div", "button", "a", "label"}

\* C18: the typography list of a markup has at least 1 and at most 5 entries;
\* when the markup has no heading, body or caption-like element it is exactly
\* one entry, of usage body and family system-ui.
C18_TypographyNeverEmpty ==
    (ximpl = "analyzer" /\ IsSome(xtypo)) =>
        LET t == Get(xtypo)
        IN  /\ Len(t) >= 1
            /\ Len(t) <= 5
            /\ NoTextElement(xmarkup) =>
                  /\ Len(t) = 1
                  /\ t[1].usage = "body"
                  /\ t[1].fontFamily = SystemUi

\* a markup that declares a font but has no text element got the fallback entry
C18_Witness ==
    /\ ximpl = "analyzer"
    /\ IsSome(xtypo)
    /\ NoTextElement(xmarkup)
    /\ \E i \in 1..Len(xmarkup) : xmarkup[i].k = "font"
    /\ Get(xtypo) = <<Typo(SystemUi, 400, "1rem", "1.5", "body")>>

\* the markup has none of the recognised structural tags
NoStructuralTag(m) ==
    \A i \in 1..Len(m) :
        m[i].k = "tag" =>
            m[i].s \notin {"header", "nav", "main", "section", "article", "footer"}

\* C19: for markup with none of the recognised structural tags the layout
\* classifier returns the sections header, main, footer.
C19_DefaultSections ==
    (IsSome(xlayout) /\ NoStructuralTag(xmarkup)) =>
        Get(xlayout).sections = <<"header", "main", "footer">>

\* '#' and the two-digit hexadecimal forms of three components, upper case
RgbHex(n) ==
    ToUpperCase(<<"#">> \o PadStart2(ToString16(n[1])) \o PadStart2(ToString16(n[2]))
                        \o PadStart2(ToString16(n[3])))

\* C20: normalizeColor maps a 3-digit hex to the upper-case 6-digit hex with
\* each digit doubled, a 6-digit hex to its upper-case form, an rgb() or rgba()
\* triple of components in 0..255 to the upper-case 6-digit hex of the
\* components, and returns null for every other representation.
C20_NormalizeColor ==
    \A i \in 1..Len(xnorm) :
        LET t == xnorm[i].tok
            hex == xnorm[i].hex
        IN  /\ (t.k = "hex" /\ Len(t.d) = 3) =>
                  hex = Some(ToUpperCase(<<"#", t.d[1], t.d[1], t.d[2], t.d[2], t.d[3], t.d[3]>>))
            /\ (t.k = "hex" /\ Len(t.d) = 6) => hex = Some(ToUpperCase(<<"#">> \o t.d))
            /\ (t.k = "rgb" /\ t.s \in {"rgb", "rgba"} /\ \A c \in 1..3 : t.n[c] \in 0..255) =>
                  hex = Some(RgbHex(t.n))
            /\ t.k = "other" => hex = None

(***************************************************************************)
(* Properties of the analyze endpoint                                      *)
(***************************************************************************)
\* the requests the route handler has answered
Answered == {r \in Requests : rin[r].entry = "POST" /\ rpc[r] = "done" /\ IsSome(resp[r])}

\* C21: when the rendered enhancement was requested and failed, the response of
\* the analyze endpoint has status 200 and its JSON object has the key
\* screenshot (with the value null): the key is present, not omitted.
C21_ScreenshotKeyPresentAndNull ==
    \A r \in Answered :
        (rin[r].capture /\ rfail[r]) =>
            /\ Get(resp[r]).status = 200
            /\ "screenshot" \in Get(resp[r]).keys

\* the url of the request body is missing, not a string, or does not parse
BadUrl(r) == rin[r].kind # "string" \/ ~UrlParses(rin[r].url)

Alone(c) == \A d \in Callers \ {c} : call[d] = NoCall

\* the browser processes that were ever started
Started(bs) == {b \in Browsers : bs[b] # "none"}

\* C24: init() with no concurrent caller: if the handle is absent or not
\* connected, the stale handle (if any) is closed and exactly one fresh browser
\* is launched, so that on successful return the handle is non-null and
\* connected; if the handle is healthy, init() launches nothing and leaves the
\* handle unchanged.
C24_InitAlone ==
    [][\A c \in Callers :
         (revision = "manager" /\ Alone(c)) =>
            LET k == call[c]
                k2 == call'[c]
            IN  /\ (k.pc \in {"idle", "retryInit"} /\ k2.pc # k.pc) =>
                      IF browser # 0 /\ bstat[browser] = "up"
                      THEN /\ k2.pc = "initDone"
                           /\ browser' = browser
                           /\ bstat' = bstat
                           /\ k2.launches = (IF k.pc = "idle" THEN 0 ELSE k.launches)
                      ELSE /\ k2.pc = (IF browser # 0 THEN "initReset" ELSE "launch")
                           /\ launching'
                /\ (k.pc = "initReset" /\ k2.pc # k.pc) =>
                      /\ k2.pc = "launch"
                      /\ browser # 0
                      /\ bstat'[browser] = "closed"
                      /\ browser' = 0
                /\ (k.pc = "launch" /\ k2.pc = "initDone") =>
                      /\ browser' # 0
                      /\ bstat[browser'] = "none"
                      /\ bstat'[browser'] = "up"
                      /\ Started(bstat') = Started(bstat) \cup {browser'}
                      /\ \A b \in Browsers \ {browser'} : bstat'[b] \in {"none", "closed"}
                      /\ k2.launches = k.launches
                      /\ ~launching'
      ]_vars

\* a lone caller found a handle whose process had exited: init() closed it and
\* returned with one fresh, connected browser
C24_Witness ==
    \E c \in Callers :
        /\ revision = "manager"
        /\ Alone(c)
        /\ call[c].pc = "initDone"
        /\ call[c].try = 1
        /\ call[c].launches = 1
        /\ bstat[1] = "closed"
        /\ browser = 2
        /\ bstat[2] = "up"

(***************************************************************************)
(* Properties of the rendered acquisition                                  *)
(***************************************************************************)
\* the navigations of a call follow the policy: DOM parsed with the shorter
\* timeout first; only after its failure one more, network quiesced with the
\* longer timeout; never a third
TwoStepPolicy(navs) ==
    /\ Len(navs) <= 2
    /\ Len(navs) >= 1 => navs[1].options.waitUntil = "domcontentloaded"
    /\ Len(navs) = 2 =>
          /\ ~navs[1].ok
          /\ navs[2].options.waitUntil = "networkidle2"
          /\ navs[2].options.timeout > navs[1].options.timeout

\* C25: rendered navigation is an ordered two-step policy: first a navigation
\* with the DOM-parsed wait condition and the shorter timeout; only if that
\* fails, exactly one more with the network-quiesced wait condition and the
\* longer timeout; if the second fails too, the failure is raised and no
\* screenshot is taken.  No third navigation is made.
C25_TwoStepNavigation ==
    /\ \A c \in Callers :
          LET k == call[c]
          IN  (revision = "legacy" /\ k.op \in {"captureScreenshot", "analyzeWebsite"}) =>
                 /\ TwoStepPolicy(k.navs)
                 /\ (Len(k.navs) = 1 /\ ~k.navs[1].ok) =>
                        (k.pc = "body" /\ k.step = "gotoFallback")
                 /\ (Len(k.navs) = 2 /\ ~k.navs[2].ok) =>
                        (k.pc \in {"closePage", "done"} /\ k.step = "")
                 /\ (k.pc = "body" /\ k.step \in {"screenshot", "allSettled"}) =>
                        (k.navs # <<>> /\ k.navs[Len(k.navs)].ok)
    /\ \A r \in Requests :
          rpc[r] = "goto" =>
             NavOptions("last", "captureScreenshot", "goto").waitUntil = "domcontentloaded"

\* C26: in VisualAnalyzer.analyzeWebsite the four extractions run on the loaded
\* page settle independently: whatever subset of them fails, the results of the
\* others are in the returned record and the failed ones keep their empty
\* defaults; once the page has been opened the method returns a record rather
\* than throwing.
C26_ExtractionsSettleIndependently ==
    \A c \in Callers :
        LET k == call[c]
        IN  (revision = "legacy" /\ k.op = "analyzeWebsite" /\ k.pc = "done"
               /\ k.page # "none") =>
               /\ k.out = "returned"
               /\ IsSome(k.rec)
               /\ \A f \in Extractions :
                     (Get(k.rec)[f] = VisualRecord({})[f]) <=> (f \notin k.settled)

\* C27: when several elements of a rendered-mode typography extraction have
\* the same (fontFamily, usage) key, the entry that is kept is the first one
\* seen, with the fontSize, fontWeight and lineHeight of the first occurrence
C27_FirstSeenWins ==
    (ximpl = "rendered" /\ IsSome(xtypo)) =>
        \A i \in 1..Len(Get(xtypo)) :
            LET t == Get(xtypo)[i]
                at == {j \in 1..Len(xfont) : TypographyKey(xfont[j]) = TypographyKey(t)}
            IN  at # {} /\ t = xfont[MinOf(at)]

\* C28: in the launch-per-call VisualAnalyzer every browser that launchBrowser
\* started is closed by the time the call has returned, on every path; no
\* browser outlives the call that launched it
C28_NoBrowserOutlivesItsCall ==
    \A r \in Requests : rpc[r] = "done" => vbrowser[r] # "alive"

(***************************************************************************)
(* Properties of the lifecycle manager under concurrent callers            *)
(***************************************************************************)
\* caller c's init() has just launched browser b and c is opening a page on it
AboutToUse(c, b) ==
    /\ call[c].init = "healthy"
    /\ call[c].launches > 0
    /\ \/ call[c].pc = "initDone" /\ browser = b
       \/ call[c].pc = "newPage" /\ call[c].target = b

\* C29: under every interleaving of newSafePage, init and resetBrowser calls on one
\* manager no launched browser is dropped without being closed: a browser that is
\* alive and unclosed is still the handle after every step, and no caller closes
\* a browser that another caller has just launched and is about to use.
C29_NoBrowserDropped ==
    [][revision = "manager" =>
         \A b \in Browsers :
            /\ bstat'[b] = "up" => browser' = b
            /\ (bstat[b] = "up" /\ bstat'[b] = "closed") =>
                  \A c \in Callers :
                     AboutToUse(c, b) => call'[c].pc # call[c].pc
      ]_vars

\* an init() call of caller c is between setting the latch and its finally block
InInit(k) == k.pc \in {"initReset", "launch"}

\* C30: the latch is set only while an init() call is executing its reset and
\* launch; when that call returns or throws the latch is clear, and after a failed
\* launch the handle is null; an init() that then finds no healthy browser is not
\* turned away by the latch: it sets it and launches again.
C30_LatchFollowsInit ==
    [][revision = "manager" =>
         /\ launching' => \E c \in Callers : InInit(call'[c])
         /\ \A c \in Callers :
              LET k == call[c]
                  k2 == call'[c]
              IN  /\ (InInit(k) /\ ~InInit(k2)) =>
                        /\ ~launching'
                        /\ k2.pc # "initDone" => browser' = 0
                  /\ (k.pc \in {"idle", "retryInit"} /\ k2.pc # k.pc
                        /\ ~launching /\ ~IsBrowserHealthy) =>
                        /\ launching'
                        /\ InInit(k2)
      ]_vars

\* a launch failed, init() threw, and the init() of the retry launched a browser
C30_Witness ==
    \E c \in Callers :
        /\ revision = "manager"
        /\ call[c].first = "initThrew"
        /\ call[c].retry = "launched"
        /\ call[c].pc = "initDone"
        /\ call[c].launches = 2
        /\ IsBrowserHealthy
        /\ ~launching

====
